---- MODULE Spec2Model ----
(***************************************************************************)
(* Model of src/sif.py: the Fraunhofer-line-depth (FLD) SIF estimator with *)
(* its O2-A / O2-B presets, and the sun-vector geometry (pos_to_vec,       *)
(* cosine_vec, cosine).                                                    *)
(*                                                                         *)
(* The functions are pure; a behaviour of the model is one call: the       *)
(* caller picks a function and its arguments (pc = "idle" -> "done") and   *)
(* the call stores what it returned, or the exception it raised.           *)
(*                                                                         *)
(* Arithmetic is exact.  A float of the FLD part is a rational <<n, d>>    *)
(* in lowest terms with d > 0, or one of the IEEE-754 exceptional values   *)
(* <<0,0>> (NaN), <<1,0>> (+inf), <<-1,0>> (-inf).  Rounding and the sign  *)
(* of zero are not modelled.                                               *)
(***************************************************************************)
EXTENDS Integers, Sequences, FiniteSets, TLC

VARIABLES pc, call, args, result

vars == <<pc, call, args, result>>

\* Longest 1-D array (and number of DataFrame rows) a call is given.
MaxLen == 2

\* Most rows (angular positions, normals, sun directions) a 2-D argument has.
MaxRows == 3

-----------------------------------------------------------------------------
(* Floats *)

Abs(x) == IF x < 0 THEN -x ELSE x

Sgn(x) == IF x < 0 THEN -1 ELSE IF x > 0 THEN 1 ELSE 0

RECURSIVE GCD(_, _)
GCD(a, b) == IF b = 0 THEN a ELSE GCD(b, a % b)

\* n/d as a float: lowest terms, or NaN / +-inf when d = 0.
Normalize(n, d) ==
    IF d = 0 THEN <<Sgn(n), 0>>
    ELSE LET s == IF d < 0 THEN -1 ELSE 1
             g == GCD(Abs(n), Abs(d))
         IN <<(s * n) \div g, (s * d) \div g>>

NaN == <<0, 0>>

IsNaN(x) == x = <<0, 0>>

IsInf(x) == x[2] = 0 /\ x[1] # 0

IsFinite(x) == x[2] > 0

IsZero(x) == x[2] > 0 /\ x[1] = 0

\* IEEE-754 product: inf * 0 and NaN * x are NaN.
FMul(a, b) == Normalize(a[1] * b[1], a[2] * b[2])

\* IEEE-754 difference: inf - inf (same sign) and NaN - x are NaN.
FSub(a, b) ==
    IF IsFinite(a) /\ IsFinite(b) THEN Normalize(a[1] * b[2] - b[1] * a[2], a[2] * b[2])
    ELSE IF IsNaN(a) \/ IsNaN(b) THEN NaN
    ELSE IF IsInf(a) /\ IsInf(b) THEN (IF a = b THEN NaN ELSE a)
    ELSE IF IsInf(a) THEN a
    ELSE <<-b[1], 0>>

\* numpy's true division: x/0 is +-inf, 0/0 is NaN (a RuntimeWarning, no exception).
FDiv(a, b) ==
    LET s == IF b[1] < 0 THEN -1 ELSE 1
    IN Normalize(s * a[1] * b[2], a[2] * Abs(b[1]))

-----------------------------------------------------------------------------
(* Operands: a Python number, a 1-D numpy array / pandas Series, or the    *)
(* exception an operation raised.                                          *)

Scalar(x) == [kind |-> "scalar", v |-> x, exc |-> ""]

Array(s) == [kind |-> "array", v |-> s, exc |-> ""]

Raise(e) == [kind |-> "error", v |-> <<>>, exc |-> e]

\* numpy broadcasting of two 1-D shapes: equal, or one of them 1.
Broadcastable(m, n) == m = n \/ m = 1 \/ n = 1

BroadcastLen(m, n) == IF m = 1 THEN n ELSE m

\* Element i of a 1-D array stretched to the broadcast length.
At(s, i) == IF Len(s) = 1 THEN s[1] ELSE s[i]

\* Python's scalar true division raises on a zero divisor.
PyDiv(a, b) == IF IsZero(b) THEN Raise("ZeroDivisionError") ELSE Scalar(FDiv(a, b))

\* x op y for Python numbers and numpy arrays; the left operand is evaluated
\* first, and an exception raised while evaluating an operand propagates.
BinOp(op, x, y) ==
    LET f(a, b) == CASE op = "mul" -> FMul(a, b)
                     [] op = "sub" -> FSub(a, b)
                     [] op = "div" -> FDiv(a, b)
    IN IF x.kind = "error" THEN x
       ELSE IF y.kind = "error" THEN y
       ELSE IF x.kind = "scalar" /\ y.kind = "scalar"
            THEN (IF op = "div" THEN PyDiv(x.v, y.v) ELSE Scalar(f(x.v, y.v)))
       ELSE IF x.kind = "scalar"
            THEN Array([i \in 1..Len(y.v) |-> f(x.v, y.v[i])])
       ELSE IF y.kind = "scalar"
            THEN Array([i \in 1..Len(x.v) |-> f(x.v[i], y.v)])
       ELSE IF Broadcastable(Len(x.v), Len(y.v))
            THEN Array([i \in 1..BroadcastLen(Len(x.v), Len(y.v)) |->
                            f(At(x.v, i), At(y.v, i))])
       ELSE Raise("ValueError")

-----------------------------------------------------------------------------
(* FLD and the band presets *)

\* FLD with the numerator's operands exchanged: L_in * E_in - L_out * E_out.
FLD_MixedNumerator(L_in, L_out, E_in, E_out) ==
    BinOp("div",
          BinOp("sub", BinOp("mul", E_in, L_in), BinOp("mul", L_out, E_out)),
          BinOp("sub", E_out, E_in))

\* FLD dividing by E_in - E_out.
FLD_NegatedDenominator(L_in, L_out, E_in, E_out) ==
    BinOp("div",
          BinOp("sub", BinOp("mul", E_out, L_in), BinOp("mul", L_out, E_in)),
          BinOp("sub", E_in, E_out))

\* FLD with the shoulder radiance weighted by E_out in place of E_in.
FLD_ShoulderWeight(L_in, L_out, E_in, E_out) ==
    BinOp("div",
          BinOp("sub", BinOp("mul", E_out, L_in), BinOp("mul", L_out, E_out)),
          BinOp("sub", E_out, E_in))

FLD(L_in, L_out, E_in, E_out) ==
    BinOp("div",
          BinOp("sub", BinOp("mul", E_out, L_in), BinOp("mul", L_out, E_in)),
          BinOp("sub", E_out, E_in))

\* O2-A preset with the radiances relabelled but not the irradiances.
_SIF_O2A_HalfSwapped(L_757, L_760, E_757, E_760) == FLD(L_757, L_760, E_760, E_757)

\* O2-B preset with the irradiances relabelled but not the radiances.
_SIF_O2B_HalfSwapped(L_685, L_687, E_685, E_687) == FLD(L_685, L_687, E_687, E_685)

_SIF_O2A(L_757, L_760, E_757, E_760) == FLD(L_760, L_757, E_760, E_757)

_SIF_O2B(L_685, L_687, E_685, E_687) == FLD(L_685, L_687, E_685, E_687)

\* df[cols] unpacked with **: each named column reaches the preset as a Series.
SIF_O2A(df) == _SIF_O2A(Array(df.L_757), Array(df.L_760), Array(df.E_757), Array(df.E_760))

SIF_O2B(df) == _SIF_O2B(Array(df.L_685), Array(df.L_687), Array(df.E_685), Array(df.E_687))

-----------------------------------------------------------------------------
(* Numbers of the geometry part.  Sines of the angles used and Euclidean   *)
(* norms are square roots, so a number x is kept as its signed square:     *)
(* <<n, d>> stands for sgn(n) * sqrt(|n| / d), in lowest terms, with the   *)
(* exceptional values of the floats above.  Products and quotients of      *)
(* signed squares are FMul and FDiv.                                       *)

FromInt(c) == <<c * Abs(c), 1>>

RECURSIVE ISqrtFrom(_, _)
ISqrtFrom(n, r) == IF (r + 1) * (r + 1) > n THEN r ELSE ISqrtFrom(n, r + 1)

\* Integer square root.
ISqrt(n) == ISqrtFrom(n, 0)

\* x + y for commensurable x and y (x * y rational), as every sum of the
\* calls below is: (x + y)^2 = x^2 + y^2 + 2xy.
SAdd(a, b) ==
    IF IsFinite(a) /\ IsFinite(b)
    THEN LET r == ISqrt(Abs(a[1] * b[1]) * a[2] * b[2])
         IN Normalize(Sgn(a[1] * b[2] + b[1] * a[2])
                        * (Abs(a[1]) * b[2] + Abs(b[1]) * a[2] + 2 * Sgn(a[1]) * Sgn(b[1]) * r),
                      a[2] * b[2])
    ELSE IF IsNaN(a) \/ IsNaN(b) THEN NaN
    ELSE IF IsInf(a) /\ IsInf(b) THEN (IF a = b THEN a ELSE NaN)
    ELSE IF IsInf(a) THEN a
    ELSE b

\* x^2 + y^2 as a rational, from the signed squares of x and y.
AddSquares(a, b) ==
    IF IsFinite(a) /\ IsFinite(b)
    THEN Normalize(Abs(a[1]) * b[2] + Abs(b[1]) * a[2], a[2] * b[2])
    ELSE IF IsNaN(a) \/ IsNaN(b) THEN NaN
    ELSE <<1, 0>>

RECURSIVE SumSquares(_)
SumSquares(s) == IF s = <<>> THEN <<0, 1>> ELSE AddSquares(Head(s), SumSquares(Tail(s)))

\* np.linalg.norm(v, 2) of a vector: the signed square of sqrt(sum of squares)
\* is the sum of squares.
Norm2(v) == SumSquares(v)

RECURSIVE SumSeq(_)
SumSeq(s) == IF Len(s) = 1 THEN s[1] ELSE SAdd(s[1], SumSeq(Tail(s)))

-----------------------------------------------------------------------------
(* Trigonometry.  An angle in radians is a rational multiple <<p, q>> of   *)
(* pi; the sines of the multiples of pi/6 and pi/4 are square roots of     *)
(* 0, 1/4, 1/2, 3/4 and 1.                                                 *)

HalfTurnDegrees == 180

\* np.deg2rad: degrees * pi / 180.
Deg2Rad(deg) == Normalize(deg, HalfTurnDegrees)

\* The angle in twelfths of pi, reduced to one turn.
Twelfths(rad) == ((rad[1] * 12) \div rad[2]) % 24

\* sin^2 of m twelfths of pi, 0 <= m <= 6, times 4.
Sin2Times4(m) == CASE m = 0 -> 0 [] m = 2 -> 1 [] m = 3 -> 2 [] m = 4 -> 3 [] m = 6 -> 4

SinTwelfths(u) ==
    LET m == u % 12
        ref == IF m > 6 THEN 12 - m ELSE m
    IN Normalize((IF u > 12 THEN -1 ELSE 1) * Sin2Times4(ref), 4)

Sin(rad) == SinTwelfths(Twelfths(rad))

Cos(rad) == SinTwelfths((Twelfths(rad) + 6) % 24)

-----------------------------------------------------------------------------
(* 2-D arrays are sequences of rows. *)

Matrix(m) == [kind |-> "matrix", v |-> m, exc |-> ""]

Rows(m) == Len(m)

Cols(m) == Len(m[1])

\* m.T
Transpose(m) == [j \in 1..Cols(m) |-> [i \in 1..Rows(m) |-> m[i][j]]]

\* m[:, j]
Column(m, j) == [i \in 1..Rows(m) |-> m[i][j]]

\* np.linalg.norm(m, 2, axis=0): one norm per column.
NormAxis0(m) == [j \in 1..Cols(m) |-> Norm2(Column(m, j))]

\* np.linalg.norm(m, 2, axis=1): one norm per row.
NormAxis1(m) == [i \in 1..Rows(m) |-> Norm2(m[i])]

\* np.dot(a, b) of an N x K and a K x M array.
Dot(a, b) ==
    [i \in 1..Rows(a) |-> [j \in 1..Cols(b) |->
        SumSeq([k \in 1..Cols(a) |-> FMul(a[i][k], b[k][j])])]]

\* u * v for 1-D arrays, with numpy's broadcasting.
Mul1D(u, v) ==
    IF Broadcastable(Len(u), Len(v))
    THEN Array([i \in 1..BroadcastLen(Len(u), Len(v)) |-> FMul(At(u, i), At(v, i))])
    ELSE Raise("ValueError")

\* m / v for a 2-D array m and a 1-D array v: v is stretched along the rows,
\* the trailing dimensions being broadcast against each other.
Div2D1D(m, v) ==
    IF Broadcastable(Cols(m), Len(v))
    THEN Matrix([i \in 1..Rows(m) |-> [j \in 1..BroadcastLen(Cols(m), Len(v)) |->
                    FDiv(At(m[i], j), At(v, j))]])
    ELSE Raise("ValueError")

-----------------------------------------------------------------------------
(* Sun-vector geometry *)

\* pos_to_vec taking the norms along axis 1 of the stacked 3 x N array.
pos_to_vec_NormAxis1(pos) ==
    LET rad == [i \in 1..Len(pos) |-> [j \in 1..2 |-> Deg2Rad(pos[i][j])]]
        res == << [i \in 1..Len(pos) |-> Sin(rad[i][1])],
                  [i \in 1..Len(pos) |-> Cos(rad[i][1])],
                  [i \in 1..Len(pos) |-> Sin(rad[i][2])] >>
        q == Div2D1D(res, NormAxis1(res))
    IN IF q.kind = "error" THEN q ELSE Matrix(Transpose(q.v))

pos_to_vec(pos) ==
    LET rad == [i \in 1..Len(pos) |-> [j \in 1..2 |-> Deg2Rad(pos[i][j])]]
        res == << [i \in 1..Len(pos) |-> Sin(rad[i][1])],
                  [i \in 1..Len(pos) |-> Cos(rad[i][1])],
                  [i \in 1..Len(pos) |-> Sin(rad[i][2])] >>
        q == Div2D1D(res, NormAxis0(res))
    IN IF q.kind = "error" THEN q ELSE Matrix(Transpose(q.v))

cosine_vec(n, sun) ==
    LET d == Dot(n, Transpose(sun))
        p == Mul1D(NormAxis1(n), NormAxis1(sun))
        q == IF p.kind = "error" THEN p ELSE Div2D1D(d, p.v)
    IN IF q.kind = "error" THEN q ELSE Matrix(Transpose(q.v))

cosine(n, sun) ==
    LET nv == pos_to_vec(n)
        sunv == pos_to_vec(sun)
    IN IF nv.kind = "error" THEN nv
       ELSE IF sunv.kind = "error" THEN sunv
       ELSE cosine_vec(nv.v, sunv.v)

-----------------------------------------------------------------------------
(* Inputs *)

Half == <<1, 2>>
FourFifths == <<4, 5>>
One == <<1, 1>>
SixFifths == <<6, 5>>
Five == <<5, 1>>

\* Values a Python number argument is drawn from.
ScalarVals == {Half, FourFifths, One, SixFifths, Five}

\* Values the elements of an array argument are drawn from.
ArrayVals == {One, Five}

SeqsUpTo(S, n) == UNION {[1..k -> S] : k \in 1..n}

Numbers == {Scalar(x) : x \in ScalarVals}

Operands == Numbers \cup {Array(s) : s \in SeqsUpTo(ArrayVals, MaxLen)}

\* DataFrames: the four columns have the frame's number of rows.
FramesA == UNION {[L_757 : [1..k -> ArrayVals], L_760 : [1..k -> ArrayVals],
                   E_757 : [1..k -> ArrayVals], E_760 : [1..k -> ArrayVals]] : k \in 1..MaxLen}

FramesB == UNION {[L_685 : [1..k -> ArrayVals], L_687 : [1..k -> ArrayVals],
                   E_685 : [1..k -> ArrayVals], E_687 : [1..k -> ArrayVals]] : k \in 1..MaxLen}

\* (azimuth, altitude) pairs in degrees given to pos_to_vec.
Azimuths == {0, 45, 120, 270}

Altitudes == {-90, 0, 30}

Positions == {<<az, alt>> : az \in Azimuths, alt \in Altitudes}

\* (azimuth, altitude) pairs given to cosine: the directions whose unit
\* vectors have commensurable components.
RightAngles == {<<0, 0>>, <<180, 90>>}

\* Nonzero 3-vectors given to cosine_vec, of norm 1, 2 and sqrt(3).
Vectors == {<<1, 0, 0>>, <<0, 2, 0>>, <<1, 1, -1>>}

\* A 2-D array of integers as an array of floats.
AsFloats(m) == [i \in 1..Len(m) |-> [j \in 1..Len(m[i]) |-> FromInt(m[i][j])]]

-----------------------------------------------------------------------------
(* Calls *)

Init ==
    /\ pc = "idle"
    /\ call = "none"
    /\ args = <<>>
    /\ result = Raise("")

CallFLD ==
    /\ pc = "idle"
    /\ \E L_in \in Operands, L_out \in Operands, E_in \in Operands, E_out \in Operands :
          /\ call' = "FLD"
          /\ args' = [L_in |-> L_in, L_out |-> L_out, E_in |-> E_in, E_out |-> E_out]
          /\ result' = FLD(L_in, L_out, E_in, E_out)
    /\ pc' = "done"

CallSIF_O2A ==
    /\ pc = "idle"
    /\ \E df \in FramesA :
          /\ call' = "SIF_O2A"
          /\ args' = df
          /\ result' = SIF_O2A(df)
    /\ pc' = "done"

CallSIF_O2B ==
    /\ pc = "idle"
    /\ \E df \in FramesB :
          /\ call' = "SIF_O2B"
          /\ args' = df
          /\ result' = SIF_O2B(df)
    /\ pc' = "done"

Call_SIF_O2A ==
    /\ pc = "idle"
    /\ \E L_757 \in Numbers, L_760 \in Numbers, E_757 \in Numbers, E_760 \in Numbers :
          /\ call' = "_SIF_O2A"
          /\ args' = [L_757 |-> L_757, L_760 |-> L_760, E_757 |-> E_757, E_760 |-> E_760]
          /\ result' = _SIF_O2A(L_757, L_760, E_757, E_760)
    /\ pc' = "done"

Call_SIF_O2B ==
    /\ pc = "idle"
    /\ \E L_685 \in Numbers, L_687 \in Numbers, E_685 \in Numbers, E_687 \in Numbers :
          /\ call' = "_SIF_O2B"
          /\ args' = [L_685 |-> L_685, L_687 |-> L_687, E_685 |-> E_685, E_687 |-> E_687]
          /\ result' = _SIF_O2B(L_685, L_687, E_685, E_687)
    /\ pc' = "done"

Callpos_to_vec ==
    /\ pc = "idle"
    /\ \E pos \in SeqsUpTo(Positions, MaxRows) :
          /\ call' = "pos_to_vec"
          /\ args' = [pos |-> pos]
          /\ result' = pos_to_vec(pos)
    /\ pc' = "done"

Callcosine_vec ==
    /\ pc = "idle"
    /\ \E n \in SeqsUpTo(Vectors, MaxRows), sun \in SeqsUpTo(Vectors, MaxRows) :
          /\ call' = "cosine_vec"
          /\ args' = [n |-> n, sun |-> sun]
          /\ result' = cosine_vec(AsFloats(n), AsFloats(sun))
    /\ pc' = "done"

Callcosine ==
    /\ pc = "idle"
    /\ \E n \in SeqsUpTo(RightAngles, MaxRows), sun \in SeqsUpTo(RightAngles, MaxRows) :
          /\ call' = "cosine"
          /\ args' = [n |-> n, sun |-> sun]
          /\ result' = cosine(n, sun)
    /\ pc' = "done"

Next ==
    \/ CallFLD \/ CallSIF_O2A \/ CallSIF_O2B \/ Call_SIF_O2A \/ Call_SIF_O2B
    \/ Callpos_to_vec \/ Callcosine_vec \/ Callcosine

Spec == Init /\ [][Next]_vars

-----------------------------------------------------------------------------
(* Vocabulary of the properties *)

\* 0 for a Python number, the length for an array.
Shape(x) == IF x.kind = "scalar" THEN 0 ELSE Len(x.v)

\* The elements of an operand, a Python number being its only element.
Elems(x) == IF x.kind = "scalar" THEN <<x.v>> ELSE x.v

SameShape(a, b, c, d) == Shape(a) = Shape(b) /\ Shape(b) = Shape(c) /\ Shape(c) = Shape(d)

\* The shapes numpy can combine: the arrays longer than 1 have one length.
Compatible(a, b, c, d) ==
    \A x \in {a, b, c, d}, y \in {a, b, c, d} :
        Shape(x) > 1 /\ Shape(y) > 1 => Shape(x) = Shape(y)

\* x and y differ / agree at every position they are combined at.
NowhereEqual(x, y) ==
    Broadcastable(Len(Elems(x)), Len(Elems(y))) =>
        \A i \in 1..BroadcastLen(Len(Elems(x)), Len(Elems(y))) :
            At(Elems(x), i) # At(Elems(y), i)

EverywhereEqual(x, y) ==
    /\ Broadcastable(Len(Elems(x)), Len(Elems(y)))
    /\ \A i \in 1..BroadcastLen(Len(Elems(x)), Len(Elems(y))) :
            At(Elems(x), i) = At(Elems(y), i)

\* r = (eo * li - lo * ei) / (eo - ei), stated over the integers.
ExactFLD(r, li, lo, ei, eo) ==
    /\ IsFinite(r)
    /\ r[1] * (eo[1] * ei[2] - ei[1] * eo[2]) * li[2] * lo[2]
         = r[2] * (eo[1] * li[1] * lo[2] * ei[2] - lo[1] * ei[1] * eo[2] * li[2])

\* The call returned a value of the arguments' shape n, element i being P(i).
Returned(n, P(_)) ==
    IF n = 0 THEN result.kind = "scalar" /\ P(1)
    ELSE result.kind = "array" /\ Len(result.v) = n /\ \A i \in 1..n : P(i)

Done(f) == pc = "done" /\ call = f

\* The element of operand x that takes part at position i of the result.
El(x, i) == At(Elems(x), i)

Neg(x) == <<-x[1], x[2]>>

-----------------------------------------------------------------------------
(* Properties of FLD and the presets *)

\* C1: for same-shaped inputs with E_out # E_in everywhere, FLD returns a value
\* of that shape whose every element is exactly
\* (E_out * L_in - L_out * E_in) / (E_out - E_in); and
\* FLD(L_in=0.5, L_out=1.0, E_in=0.8, E_out=1.2) = -0.5.
C1_FLDFormula ==
    Done("FLD") /\ SameShape(args.L_in, args.L_out, args.E_in, args.E_out)
                /\ NowhereEqual(args.E_out, args.E_in)
    => /\ LET P(i) == ExactFLD(El(result, i), El(args.L_in, i), El(args.L_out, i),
                                 El(args.E_in, i), El(args.E_out, i))
          IN Returned(Shape(args.L_in), P)
       /\ (args = [L_in |-> Scalar(Half), L_out |-> Scalar(One),
                    E_in |-> Scalar(FourFifths), E_out |-> Scalar(SixFifths)]
             => result = Scalar(<<-1, 2>>))

\* C1 witnesses: the concrete example has been computed.
C1_Witness ==
    /\ Done("FLD")
    /\ args = [L_in |-> Scalar(Half), L_out |-> Scalar(One),
                E_in |-> Scalar(FourFifths), E_out |-> Scalar(SixFifths)]
    /\ result = Scalar(<<-1, 2>>)

\* C2: for E_685 # E_687 everywhere, the O2-B preset (on a DataFrame, and the
\* keyword form on numbers) returns the value of
\* FLD(L_in=L_687, L_out=L_685, E_in=E_687, E_out=E_685).
C2_O2BValue ==
    /\ Done("SIF_O2B") /\ NowhereEqual(Array(args.E_685), Array(args.E_687))
        => result = FLD(Array(args.L_687), Array(args.L_685),
                        Array(args.E_687), Array(args.E_685))
    /\ Done("_SIF_O2B") /\ NowhereEqual(args.E_685, args.E_687)
        => result = FLD(args.L_687, args.L_685, args.E_687, args.E_685)

\* C2 witness: a one-row frame with L_685 = 5, L_687 = 1, E_685 = 1, E_687 = 5
\* gave (5*5 - 1*1)/(5 - 1) = 6.
C2_Witness ==
    /\ Done("SIF_O2B")
    /\ args = [L_685 |-> <<Five>>, L_687 |-> <<One>>, E_685 |-> <<One>>, E_687 |-> <<Five>>]
    /\ result = Array(<< <<6, 1>> >>)

\* C3 as stated: for E_out # E_in, exchanging L_in with L_out and E_in with
\* E_out negates the estimate.
C3_SwapNegates ==
    Done("FLD") /\ SameShape(args.L_in, args.L_out, args.E_in, args.E_out)
                /\ NowhereEqual(args.E_out, args.E_in)
    => LET swapped == FLD(args.L_out, args.L_in, args.E_out, args.E_in)
           P(i) == El(swapped, i) = Neg(El(result, i))
       IN swapped.kind = result.kind /\ Returned(Shape(args.L_in), P)

\* C3 amended: for inputs of compatible shapes with E_out # E_in, exchanging
\* L_in with L_out and E_in with E_out leaves the estimate unchanged, and
\* neither call raises.
C3_SwapInvariant ==
    Done("FLD") /\ Compatible(args.L_in, args.L_out, args.E_in, args.E_out)
                /\ NowhereEqual(args.E_out, args.E_in)
    => /\ result.kind # "error"
       /\ FLD(args.L_out, args.L_in, args.E_out, args.E_in) = result

\* C3 witness: a call with a nonzero estimate, (5*1/2 - 1*1)/(5 - 1) = 3/8.
C3_Witness ==
    /\ Done("FLD")
    /\ args = [L_in |-> Scalar(Half), L_out |-> Scalar(One),
                E_in |-> Scalar(One), E_out |-> Scalar(Five)]
    /\ result = Scalar(<<3, 8>>)

\* C6 as stated: with the same radiance x in both channels and E_out # E_in,
\* FLD yields 0.
C6_IdentityZero ==
    Done("FLD") /\ SameShape(args.L_in, args.L_out, args.E_in, args.E_out)
                /\ args.L_in = args.L_out /\ NowhereEqual(args.E_out, args.E_in)
    => LET P(i) == IsZero(El(result, i))
       IN Returned(Shape(args.L_in), P)

\* C6 amended: with the same radiance x in both channels and E_out # E_in,
\* FLD yields x (the quotient x * (E_out - E_in) / (E_out - E_in)).
C6_IdentityX ==
    Done("FLD") /\ SameShape(args.L_in, args.L_out, args.E_in, args.E_out)
                /\ args.L_in = args.L_out /\ NowhereEqual(args.E_out, args.E_in)
    => LET P(i) == El(result, i) = El(args.L_in, i)
       IN Returned(Shape(args.L_in), P)

\* C6 witness: FLD(L_in=1/2, L_out=1/2, E_in=4/5, E_out=6/5) returned 1/2.
C6_Witness ==
    /\ Done("FLD")
    /\ args = [L_in |-> Scalar(Half), L_out |-> Scalar(Half),
                E_in |-> Scalar(FourFifths), E_out |-> Scalar(SixFifths)]
    /\ result = Scalar(Half)

\* C7: on same-shaped input with E_in = E_out, numbers as well as arrays, FLD
\* does not raise and returns NaN or +-inf in every element; the call
\* FLD(L_in=1, L_out=1, E_in=5, E_out=5) on numbers returns NaN.
C7_DegenerateNeverRaises ==
    Done("FLD") /\ SameShape(args.L_in, args.L_out, args.E_in, args.E_out)
                /\ EverywhereEqual(args.E_in, args.E_out)
    => /\ LET P(i) == ~IsFinite(El(result, i))
          IN Returned(Shape(args.L_in), P)
       /\ (args = [L_in |-> Scalar(One), L_out |-> Scalar(One),
                    E_in |-> Scalar(Five), E_out |-> Scalar(Five)]
             => result = Scalar(NaN))

\* C8: when the four inputs do not all have the same shape, FLD raises.
C8_ShapeMismatchFails ==
    Done("FLD") /\ ~SameShape(args.L_in, args.L_out, args.E_in, args.E_out)
    => result.kind = "error"

\* C10: the O2-A preset (on a DataFrame, and the keyword form on numbers)
\* returns what FLD(L_in=L_760, L_out=L_757, E_in=E_760, E_out=E_757) returns,
\* for all inputs.
C10_O2ARelabels ==
    /\ Done("SIF_O2A")
        => result = FLD(Array(args.L_760), Array(args.L_757),
                        Array(args.E_760), Array(args.E_757))
    /\ Done("_SIF_O2A")
        => result = FLD(args.L_760, args.L_757, args.E_760, args.E_757)

\* C10 witness: SIF_O2A(L_757=1, L_760=1/2, E_757=6/5, E_760=4/5) returned -1/2.
C10_Witness ==
    /\ Done("_SIF_O2A")
    /\ args = [L_757 |-> Scalar(One), L_760 |-> Scalar(Half),
                E_757 |-> Scalar(SixFifths), E_760 |-> Scalar(FourFifths)]
    /\ result = Scalar(<<-1, 2>>)

-----------------------------------------------------------------------------
(* Properties of the sun-vector geometry *)

DotInt(u, w) == u[1] * w[1] + u[2] * w[2] + u[3] * w[3]

\* r = dot(u, w) / (||u|| * ||w||) for integer vectors u and w, stated over
\* the integers on the signed square of r.
ExactCosine(r, u, w) ==
    /\ IsFinite(r)
    /\ r[1] * DotInt(u, u) * DotInt(w, w) = r[2] * DotInt(u, w) * Abs(DotInt(u, w))

HasEntry(m, i, j) == i \in 1..Len(m) /\ j \in 1..Len(m[i])

\* C4: for nonzero normals and sun vectors, whenever cosine_vec returns a
\* matrix, its value for the pair (normal_i, sun_j), looked up at [i, j] or at
\* the transposed place [j, i], is dot(normal_i, sun_j) / (||normal_i|| * ||sun_j||).
C4_PairwiseCosine ==
    Done("cosine_vec") /\ result.kind = "matrix"
    => \A i \in 1..Len(args.n), j \in 1..Len(args.sun) :
          \/ HasEntry(result.v, i, j) /\ ExactCosine(result.v[i][j], args.n[i], args.sun[j])
          \/ HasEntry(result.v, j, i) /\ ExactCosine(result.v[j][i], args.n[i], args.sun[j])

\* C5: cosine_vec and cosine, given N rows and M rows, return a matrix of N
\* rows and M columns.
C5_ShapeNxM ==
    Done("cosine_vec") \/ Done("cosine")
    => /\ result.kind = "matrix"
       /\ Len(result.v) = Len(args.n)
       /\ \A i \in 1..Len(result.v) : Len(result.v[i]) = Len(args.sun)

\* 4 * sin^2, signed, of the three trigonometric values of one position.
Raw4(p) ==
    LET e == <<Sin(Deg2Rad(p[1])), Cos(Deg2Rad(p[1])), Sin(Deg2Rad(p[2]))>>
    IN [c \in 1..3 |-> (4 * e[c][1]) \div e[c][2]]

\* C9: pos_to_vec returns N rows of 3 components, row k being
\* (sin az_k, cos az_k, sin alt_k) divided by the Euclidean norm of that same
\* 3-vector, so that x^2 + y^2 + z^2 = 1 in every row.
C9_UnitRows ==
    Done("pos_to_vec")
    => /\ result.kind = "matrix"
       /\ Len(result.v) = Len(args.pos)
       /\ \A k \in 1..Len(args.pos) :
             LET row == result.v[k]
                 raw == Raw4(args.pos[k])
             IN /\ Len(row) = 3
                /\ \A c \in 1..3 :
                      /\ IsFinite(row[c])
                      /\ row[c][1] * (Abs(raw[1]) + Abs(raw[2]) + Abs(raw[3]))
                           = row[c][2] * raw[c]
                /\ Abs(row[1][1]) * row[2][2] * row[3][2]
                     + Abs(row[2][1]) * row[1][2] * row[3][2]
                     + Abs(row[3][1]) * row[1][2] * row[2][2]
                    = row[1][2] * row[2][2] * row[3][2]

\* C9 witness: two positions of different norms, (45, 30) of norm sqrt(5/4)
\* and (120, -90) of norm sqrt(2), were converted.
C9_Witness ==
    /\ Done("pos_to_vec")
    /\ args.pos = << <<45, 30>>, <<120, -90>> >>
    /\ result.v = << << <<2, 5>>, <<2, 5>>, <<1, 5>> >>,
                      << <<3, 8>>, <<-1, 8>>, <<-1, 2>> >> >>
====
